---- MODULE Spec2Model ----
(***************************************************************************)
(* Model of components/video-generator.tsx (src/unnamed/part_000): the     *)
(* VideoGenerator component, its GenState, and the async handleGenerate    *)
(* pipeline (media preparation, MediaRecorder, frame loop, flush), and     *)
(* the drawing routines drawFrame and wrapText, which are also studied on  *)
(* their own (DrawSpec, WrapSpec) as functions of their arguments.         *)
(*                                                                         *)
(* handleGenerate is an async function run on the browser's single event   *)
(* loop.  One action of the model is one task of that loop: the code from  *)
(* one suspension (an await on a timer or event) up to the next one.  An   *)
(* await on an already settled promise resumes in a microtask, before any  *)
(* other task, so it does not end an action.                               *)
(***************************************************************************)
EXTENDS Integers, Sequences, FiniteSets, TLC

(* ------------------------------ bounds -------------------------------- *)

\* invocations of handleGenerate (clicks on the button) in one behaviour
MaxRuns == 2
\* largest totalFrames of the short clips of Init
MaxFrames == 2
\* dataavailable events a recorder emits before the flush at stop()
MaxMidChunks == 1
\* largest size of an emitted chunk
MaxChunkSize == 1
\* totalFrames of the long clips of InitSingle: LongLo..LongHi and the default
LongLo == 99
LongHi == 101
\* wrapText on its own: longest text, widest maxWidth (in glyph units of
\* the footer font) and largest maxLines
MaxTextLen == 5
MaxWidthUnits == 5
MaxLinesArg == 3
\* drawFrame on its own: largest totalFrames
MaxTotal == 2

(* ------------------------- program constants -------------------------- *)

fps == 30
ProgressUpdates == 50
DefaultDurationSec == 5
ReadyThreshold == 2
\* the canvas: width = 1280, height = 720, and the bands of drawFrame
width == 1280
height == 720
headerH == 100
footerH == 120
\* the footer title: left padding, line height and line limit
padding == 36
TitleLineHeight == 44
TitleMaxLines == 2

mimeTypeCandidates ==
  <<"video/webm;codecs=vp9", "video/webm;codecs=vp8", "video/webm">>

Runs == 1..MaxRuns
ChunkSizes == 0..MaxChunkSize

Max(a, b) == IF a >= b THEN a ELSE b

\* durationSec is held in sixtieths of a second, so that durationSec * fps
\* has a fractional part for Math.floor to cut (odd values) and 0 for
\* Math.max to lift.
Durations == {0} \cup {2 * k + 1 : k \in 2..MaxFrames}
LongDurations ==
  {2 * k + 1 : k \in LongLo..LongHi} \cup {DefaultDurationSec * 60}

VARIABLES
  mediaType,     \* prop: "image" | "video"
  durationSec,   \* prop, in sixtieths of a second
  supported,     \* the mime types MediaRecorder.isTypeSupported accepts
  ctxAvailable,  \* whether canvas.getContext("2d") yields a context
  runLimit,      \* clicks the user makes in this behaviour
  started,       \* invocations of handleGenerate so far
  state,         \* useState<GenState>
  canvasRef,     \* useRef<HTMLCanvasElement | null>
  canvas,        \* what the shared canvas shows: the last frame drawn
  pc,            \* per invocation: where it is suspended
  f,             \* per invocation: the loop variable f
  img,           \* per invocation: the HTMLImageElement
  vid,           \* per invocation: the HTMLVideoElement
  recorder,      \* per invocation: the MediaRecorder
  chunks,        \* per invocation: const chunks: BlobPart[]
  emitted,       \* history: every chunk the invocation's recorder emitted
  updates,       \* history: every setState the invocation made, in order
  drawn,         \* history: every drawFrame call the invocation made
  title,         \* prop: the title drawFrame draws in the footer
  ctx,           \* the attributes of the canvas's 2d context
  frameArgs,     \* drawFrame called on its own: the arguments followed
  painted,       \* the first and the latest call made with frameArgs,
                 \* each with the context it found and the calls it made
  wrapCall,      \* wrapText called on its own: the arguments
  wrapOut        \* and the fillText calls it made

vars ==
  <<mediaType, durationSec, supported, ctxAvailable, runLimit, started,
    state, canvasRef, canvas, pc, f, img, vid, recorder, chunks, emitted,
    updates, drawn, title, ctx, frameArgs, painted, wrapCall, wrapOut>>

props == <<mediaType, durationSec, supported, ctxAvailable, runLimit, title>>

\* the state of the drawing routines studied on their own
surface == <<ctx, frameArgs, painted, wrapCall, wrapOut>>

(* ------------------------------ GenState ------------------------------ *)

\* A progress value is the quotient num / den, kept exact.
Frac(n, d) == [num |-> n, den |-> d]
FracLeq(a, b) == a.num * b.den <= b.num * a.den
FracLess(a, b) == a.num * b.den < b.num * a.den

IdleState == [status |-> "idle"]
Recording(p) == [status |-> "recording", progress |-> p]
DoneState(url, size) == [status |-> "done", url |-> url, size |-> size]
ErrorState(message) == [status |-> "error", message |-> message]

IsTerminal(s) == s.status \in {"done", "error"}

(* --------------------------- pure helpers ----------------------------- *)

\* const totalFrames = Math.max(1, Math.floor(durationSec * fps))
TotalFrames(d) == Max(1, (d * fps) \div 60)

\* Math.max(1, Math.floor(totalFrames / 50))
ProgressStep(total) == Max(1, total \div ProgressUpdates)

\* if ((f + 1) % Math.max(1, Math.floor(totalFrames / 50)) === 0), with the
\* old value of f
ShouldUpdate_FrameIndex(fOld, total) == fOld % ProgressStep(total) = 0
ShouldUpdate(fOld, total) == (fOld + 1) % ProgressStep(total) = 0

\* progress: (f + 1) / totalFrames
ProgressValue_KenBurnsDenominator(fOld, total) ==
  Frac(fOld + 1, Max(total - 1, 1))
ProgressValue(fOld, total) == Frac(fOld + 1, total)

\* for (let f = 0; f < totalFrames; f++): the test made with the new f
LoopContinues_OffByOne(fNew, total) == fNew <= total
LoopContinues(fNew, total) == fNew < total

\* mimeTypeCandidates.find((m) => MediaRecorder.isTypeSupported(m)) || ""
RECURSIVE FindFrom(_, _, _)
FindFrom(cands, sup, i) ==
  IF i > Len(cands) THEN ""
  ELSE IF cands[i] \in sup THEN cands[i]
  ELSE FindFrom(cands, sup, i + 1)
FindMimeType_GenericFirst(sup) ==
  IF mimeTypeCandidates[Len(mimeTypeCandidates)] \in sup
  THEN mimeTypeCandidates[Len(mimeTypeCandidates)]
  ELSE FindFrom(mimeTypeCandidates, sup, 1)
FindMimeType(sup) == FindFrom(mimeTypeCandidates, sup, 1)

\* { type: mimeType || "video/webm" }
BlobType_NoFallback(mimeType) == mimeType
BlobType(mimeType) == IF mimeType # "" THEN mimeType ELSE "video/webm"

RECURSIVE SumSizes(_)
SumSizes(parts) ==
  IF parts = <<>> THEN 0 ELSE Head(parts).size + SumSizes(Tail(parts))

\* new Blob(chunks, { type }): the parts in array order; size is their sum
NewBlob(parts, type) ==
  [parts |-> parts, type |-> type, size |-> SumSizes(parts)]

\* recorder.ondataavailable = (e) => { if (e.data && e.data.size > 0)
\* chunks.push(e.data) }
OnDataAvailable_NoSizeCheck(cs, data) == Append(cs, data)
OnDataAvailable(cs, data) == IF data.size > 0 THEN Append(cs, data) ELSE cs

(* ----------------------------- wrapText ------------------------------- *)

\* A string is the sequence of its characters, each a one-character
\* string; the horizontal ellipsis U+2026 is the one character "..."
Ellipsis == "..."

HeaderFont ==
  "bold 42px system-ui, -apple-system, Segoe UI, Roboto, Helvetica, Arial, sans-serif"
FooterFont ==
  "700 36px system-ui, -apple-system, Segoe UI, Roboto, Helvetica, Arial, sans-serif"
\* the font of a 2d context nobody has set a font on
DefaultFont == "10px sans-serif"

\* the pixel size a font string asks for
FontPx(font) ==
  IF font = HeaderFont THEN 42
  ELSE IF font = FooterFont THEN 36
  ELSE 10

\* ctx.measureText(s).width under ctx.font: the advance widths of the
\* characters add up and grow with the font size; "b" is a wide glyph
GlyphUnits(c) == IF c = "b" THEN 2 ELSE 1
RECURSIVE SumUnits(_)
SumUnits(str) ==
  IF str = <<>> THEN 0 ELSE GlyphUnits(Head(str)) + SumUnits(Tail(str))
MeasureText(font, str) == FontPx(font) * SumUnits(str)

\* text.split(" "): one word per separator plus one, empty words included
RECURSIVE SplitFrom(_, _, _, _)
SplitFrom(text, i, word, words) ==
  IF i > Len(text) THEN Append(words, word)
  ELSE IF text[i] = " "
       THEN SplitFrom(text, i + 1, <<>>, Append(words, word))
       ELSE SplitFrom(text, i + 1, Append(word, text[i]), words)
Split(text) == SplitFrom(text, 1, <<>>, <<>>)

\* words.join(" ")
RECURSIVE Join(_)
Join(words) ==
  IF words = <<>> THEN <<>>
  ELSE IF Len(words) = 1 THEN words[1]
  ELSE words[1] \o <<" ">> \o Join(Tail(words))

\* if (metrics.width > maxWidth && n > 0), n counted from 0
Overflows_NoFirstWordGuard(w, maxWidth, n) == w > maxWidth
Overflows(w, maxWidth, n) == w > maxWidth /\ n > 0

\* while (ctx.measureText(rest + "\u2026").width > maxWidth && rest.length > 0)
\*   rest = rest.slice(0, -1)
RECURSIVE TrimToFit_IgnoresEllipsis(_, _, _)
TrimToFit_IgnoresEllipsis(font, rest, maxWidth) ==
  IF MeasureText(font, rest) > maxWidth /\ Len(rest) > 0
  THEN TrimToFit_IgnoresEllipsis(font, SubSeq(rest, 1, Len(rest) - 1),
                                 maxWidth)
  ELSE rest
RECURSIVE TrimToFit(_, _, _)
TrimToFit(font, rest, maxWidth) ==
  IF MeasureText(font, Append(rest, Ellipsis)) > maxWidth /\ Len(rest) > 0
  THEN TrimToFit(font, SubSeq(rest, 1, Len(rest) - 1), maxWidth)
  ELSE rest

FillText(str, x, y) == [op |-> "fillText", text |-> str, x |-> x, y |-> y]

\* The for loop of wrapText from index n (counted from 0) on, with the
\* locals line and lineCount and the fillText calls made so far; a is the
\* record of the arguments.  truncated tells that the loop returned from
\* its truncation branch.
RECURSIVE WrapFrom(_, _, _, _, _, _)
WrapFrom(a, words, n, line, lineCount, ops) ==
  IF n >= Len(words)
  THEN [ops |-> Append(ops,
                  FillText(line, a.x, a.y + lineCount * a.lineHeight)),
        truncated |-> FALSE]
  ELSE
    LET testLine == IF line # <<>> THEN line \o <<" ">> \o words[n + 1]
                    ELSE words[n + 1]
    IN IF Overflows(MeasureText(a.font, testLine), a.maxWidth, n)
       THEN
         LET committed == Append(ops,
                FillText(line, a.x, a.y + lineCount * a.lineHeight))
             count == lineCount + 1
         IN IF count >= a.maxLines - 1
            THEN
              LET rest == TrimToFit(a.font,
                            Join(SubSeq(words, n + 1, Len(words))),
                            a.maxWidth)
              IN [ops |-> Append(committed,
                            FillText(Append(rest, Ellipsis), a.x,
                                     a.y + count * a.lineHeight)),
                  truncated |-> TRUE]
            ELSE WrapFrom(a, words, n + 1, words[n + 1], count, committed)
       ELSE WrapFrom(a, words, n + 1, testLine, lineCount, ops)

\* wrapText(ctx, text, x, y, maxWidth, lineHeight, maxLines); of ctx only
\* the font matters, to measureText
WrapArgs(font, text, x, y, maxWidth, lineHeight, maxLines) ==
  [font |-> font, text |-> text, x |-> x, y |-> y, maxWidth |-> maxWidth,
   lineHeight |-> lineHeight, maxLines |-> maxLines]
WrapText(a) == WrapFrom(a, Split(a.text), 0, <<>>, 0, <<>>)

(* ------------------------- media and recorder ------------------------- *)

NoCanvas == "null"
DomCanvas == "canvas"

NoImage == "none"
NoVideo == [readyState |-> 0, error |-> FALSE, created |-> FALSE,
            resolvedAt |-> -1]
NewVideo == [readyState |-> 0, error |-> FALSE, created |-> TRUE,
             resolvedAt |-> -1]
NoRecorder == [state |-> "none", mimeType |-> "", started |-> FALSE,
               onstop |-> FALSE, stopQueued |-> FALSE, stopped |-> FALSE]

\* recorder.stop() followed, in the same task, by
\* await new Promise((res) => (recorder.onstop = () => res())): the stop
\* event is queued as a task and the handler is in place when it runs
StopAndAwait_HandlerLate(rec) ==
  [rec EXCEPT !.state = "inactive", !.stopQueued = TRUE]
StopAndAwait(rec) ==
  [rec EXCEPT !.state = "inactive", !.stopQueued = TRUE, !.onstop = TRUE]

BlankCanvas == [by |-> 0, t |-> 0, media |-> "blank"]

\* drawFrame's media branch: what is painted over the black media band
MediaDrawn(image, video) ==
  IF mediaType = "image" /\ image = "loaded" THEN "image"
  ELSE IF mediaType = "video" /\ video.created
          /\ video.readyState >= ReadyThreshold THEN "video"
  ELSE "black"

\* drawFrame, image mode: const progress = t / Math.max(total - 1, 1);
\* const scale = 1.0 + progress * 0.1, as the exact quotient
\* (10 * d + t) / (10 * d) with d = max(total - 1, 1)
KenBurnsScale_TotalAsDenominator(t, total) ==
  Frac(10 * Max(total, 1) + t, 10 * Max(total, 1))
KenBurnsScale(t, total) ==
  Frac(10 * Max(total - 1, 1) + t, 10 * Max(total - 1, 1))

\* the zoom drawFrame applies to the media: the Ken Burns scale in the
\* image branch (mediaType === "image" && image), none (1) in video mode
ZoomOf(t, total, image) ==
  IF mediaType = "image" /\ image # NoImage
  THEN KenBurnsScale(t, total)
  ELSE Frac(1, 1)

\* drawFrame(ctx, f, totalFrames, img, vid) by invocation r
Frame(r, t, image, video) ==
  [by |-> r, t |-> t, media |-> MediaDrawn(image, video)]

\* waitVideoReady: if (video.readyState >= 2) return res()
ReadyNow(video) == video.readyState >= ReadyThreshold

(* ----------------------------- drawFrame ------------------------------ *)

\* Arithmetic on exact quotients, kept in lowest terms with a positive
\* denominator.
Abs(n) == IF n < 0 THEN -n ELSE n
RECURSIVE GCD(_, _)
GCD(a, b) == IF b = 0 THEN a ELSE GCD(b, a % b)
Reduce(q) ==
  LET g == GCD(Abs(q.num), q.den)
  IN Frac(q.num \div g, q.den \div g)
Whole(n) == Frac(n, 1)
Plus(p, q) == Reduce(Frac(p.num * q.den + q.num * p.den, p.den * q.den))
Minus(p, q) == Reduce(Frac(p.num * q.den - q.num * p.den, p.den * q.den))
Times(p, q) == Reduce(Frac(p.num * q.num, p.den * q.den))
Over(p, q) == Reduce(Frac(p.num * q.den, p.den * q.num))
Half(p) == Reduce(Frac(p.num, 2 * p.den))

mediaY == headerH
mediaH == height - headerH - footerH
mediaW == width
titleY == height - footerH + 24

\* what drawFrame is handed: image?: HTMLImageElement, video?:
\* HTMLVideoElement, each undefined (present FALSE) or an element
ImageOf(iw, ih) ==
  [present |-> TRUE, naturalWidth |-> iw, naturalHeight |-> ih]
NoImageArg == [present |-> FALSE, naturalWidth |-> 0, naturalHeight |-> 0]
VideoOf(rs, vw, vh) ==
  [present |-> TRUE, readyState |-> rs, videoWidth |-> vw,
   videoHeight |-> vh]
NoVideoArg ==
  [present |-> FALSE, readyState |-> 0, videoWidth |-> 0, videoHeight |-> 0]

\* the statements of drawFrame: assignments to context attributes and
\* calls of context methods
SetAttr(attr, value) == [op |-> "set", attr |-> attr, value |-> value]
FillRect(x, y, w, h) == [op |-> "fillRect", x |-> x, y |-> y, w |-> w, h |-> h]
DrawImage(src, x, y, w, h) ==
  [op |-> "drawImage", src |-> src, x |-> x, y |-> y, w |-> w, h |-> h]
WrapTextStmt(text, x, y, maxWidth, lh, ml) ==
  [op |-> "wrapText", text |-> text, x |-> x, y |-> y,
   maxWidth |-> maxWidth, lineHeight |-> lh, maxLines |-> ml]

\* "Breaking News"
Label == <<"B", "r", "e", "a", "k", "i", "n", "g", " ", "N", "e", "w", "s">>

\* // Background
BackgroundStmts ==
  <<SetAttr("fillStyle", "#ffffff"), FillRect(0, 0, width, height)>>

\* // Header
HeaderStmts_NoBaseline ==
  <<SetAttr("fillStyle", "#e11d48"), FillRect(0, 0, width, headerH),
    SetAttr("fillStyle", "#ffffff"), SetAttr("font", HeaderFont),
    SetAttr("textAlign", "left"),
    FillText(Label, 36, headerH \div 2)>>
HeaderStmts ==
  <<SetAttr("fillStyle", "#e11d48"), FillRect(0, 0, width, headerH),
    SetAttr("fillStyle", "#ffffff"), SetAttr("font", HeaderFont),
    SetAttr("textBaseline", "middle"), SetAttr("textAlign", "left"),
    FillText(Label, 36, headerH \div 2)>>

\* // Media area
MediaBandStmts ==
  <<SetAttr("fillStyle", "#000000"), FillRect(0, mediaY, mediaW, mediaH)>>

\* The fit of both media branches: the side the aspect comparison picks
\* is set to the band's side times scale, the other follows the aspect;
\* the rectangle is then centred on the band.
FitStmts(src, aspect, scale) ==
  LET mediaAspect == Frac(mediaW, mediaH)
      wide == FracLess(mediaAspect, aspect)
      drawH == IF wide THEN Times(Whole(mediaH), scale)
               ELSE Over(Times(Whole(mediaW), scale), aspect)
      drawW == IF wide THEN Times(drawH, aspect)
               ELSE Times(Whole(mediaW), scale)
      offsetX == Half(Minus(Whole(mediaW), drawW))
      offsetY == Half(Minus(Whole(mediaH), drawH))
  IN <<DrawImage(src, offsetX, Plus(Whole(mediaY), offsetY), drawW, drawH)>>

\* else if (mediaType === "video" && video && video.readyState >= 2)
VideoDrawable_FromMetadata(video) ==
  mediaType = "video" /\ video.present /\ video.readyState >= 1
VideoDrawable(video) ==
  mediaType = "video" /\ video.present
  /\ video.readyState >= ReadyThreshold

\* the image branch and the video branch
MediaStmts(t, total, image, video) ==
  IF mediaType = "image" /\ image.present
  THEN IF image.naturalWidth # 0 /\ image.naturalHeight # 0
       THEN FitStmts("image",
                     Reduce(Frac(image.naturalWidth, image.naturalHeight)),
                     Reduce(KenBurnsScale(t, total)))
       ELSE <<>>
  ELSE IF VideoDrawable(video)
  THEN IF video.videoWidth # 0 /\ video.videoHeight # 0
       THEN FitStmts("video",
                     Reduce(Frac(video.videoWidth, video.videoHeight)),
                     Whole(1))
       ELSE <<>>
  ELSE <<>>

\* // Footer Title (max 2 lines)
FooterStmts ==
  <<SetAttr("fillStyle", "#0a0a0a"), SetAttr("textAlign", "left"),
    SetAttr("textBaseline", "top"), SetAttr("font", FooterFont),
    WrapTextStmt(title, padding, titleY, width - padding * 2,
                 TitleLineHeight, TitleMaxLines)>>

\* A call of a context method as it reaches the canvas: the call with its
\* arguments and the context attributes that decide its pixels (fillRect:
\* fillStyle; fillText: fillStyle, font, textBaseline, textAlign;
\* drawImage: none of the four).
Painted(call, c) ==
  [call |-> call,
   attrs |-> IF call.op = "fillRect" THEN <<c.fillStyle>>
             ELSE IF call.op = "fillText"
             THEN <<c.fillStyle, c.font, c.textBaseline, c.textAlign>>
             ELSE <<>>]

\* running statements in order on the context c, after the calls ops
RECURSIVE Exec(_, _, _)
Exec(stmts, c, ops) ==
  IF stmts = <<>> THEN [ctx |-> c, ops |-> ops]
  ELSE
    LET s == Head(stmts)
    IN IF s.op = "set"
       THEN Exec(Tail(stmts), [c EXCEPT ![s.attr] = s.value], ops)
       ELSE IF s.op = "wrapText"
       THEN Exec(WrapText(WrapArgs(c.font, s.text, s.x, s.y, s.maxWidth,
                                   s.lineHeight, s.maxLines)).ops
                 \o Tail(stmts), c, ops)
       ELSE Exec(Tail(stmts), c, Append(ops, Painted(s, c)))

\* drawFrame(ctx, t, total, image, video)
DrawFrame(c, t, total, image, video) ==
  Exec(BackgroundStmts \o HeaderStmts \o MediaBandStmts
       \o MediaStmts(t, total, image, video) \o FooterStmts, c, <<>>)

\* The component as mounted: GenState idle, the hidden canvas in canvasRef,
\* no invocation yet.  The props and the browser's capabilities are fixed
\* for the behaviour.
Mounted ==
  /\ started = 0
  /\ state = IdleState
  /\ canvasRef = DomCanvas
  /\ canvas = BlankCanvas
  /\ pc = [r \in Runs |-> "idle"]
  /\ f = [r \in Runs |-> 0]
  /\ img = [r \in Runs |-> NoImage]
  /\ vid = [r \in Runs |-> NoVideo]
  /\ recorder = [r \in Runs |-> NoRecorder]
  /\ chunks = [r \in Runs |-> <<>>]
  /\ emitted = [r \in Runs |-> <<>>]
  /\ updates = [r \in Runs |-> <<>>]
  /\ drawn = [r \in Runs |-> <<>>]

\* drawFrame's arguments t, total, image, video
FrameArgs(t, total, image, video) ==
  [t |-> t, total |-> total, image |-> image, video |-> video]
NoFrameArgs == FrameArgs(0, 0, NoImageArg, NoVideoArg)

\* a 2d context nobody has set an attribute on
FreshContext ==
  [fillStyle |-> "#000000", font |-> DefaultFont,
   textBaseline |-> "alphabetic", textAlign |-> "start"]
NotCalled == [ops |-> <<>>, truncated |-> FALSE, called |-> FALSE]
NoWrapCall == WrapArgs(DefaultFont, <<>>, 0, 0, 0, 0, 0)

\* nothing drawn yet
DrawIdle ==
  /\ ctx = FreshContext
  /\ painted = <<>>

SurfaceIdle ==
  /\ DrawIdle
  /\ frameArgs = NoFrameArgs
  /\ wrapCall = NoWrapCall
  /\ wrapOut = NotCalled

InitWith(durations, limit) ==
  /\ mediaType \in {"image", "video"}
  /\ durationSec \in durations
  /\ supported \in SUBSET {mimeTypeCandidates[i] : i \in 1..3}
  /\ ctxAvailable \in BOOLEAN
  /\ runLimit = limit
  /\ title = <<>>
  /\ Mounted
  /\ SurfaceIdle

\* short clips, the button clicked up to MaxRuns times
Init == InitWith(Durations, MaxRuns)
\* one click, short and long clips (the default 5 s among them)
InitSingle == InitWith(Durations \cup LongDurations, 1)
\* one click, short clips
InitOne == InitWith(Durations, 1)

(* ------------------------- handleGenerate ----------------------------- *)

\* catch (e: any) { setState({ status: "error", message: e?.message ||
\* "Failed to generate video" }) }
CatchState(message) ==
  ErrorState(IF message # "" THEN message ELSE "Failed to generate video")

\* The catch block of invocation r, reached with upd the updates r has
\* made so far: the error state is set and the invocation returns.
Throw(r, upd, message) ==
  /\ state' = CatchState(message)
  /\ updates' = [updates EXCEPT ![r] = Append(upd, CatchState(message))]
  /\ pc' = [pc EXCEPT ![r] = "returned"]

\* Lines 134-150, entered when the media is prepared: capture stream,
\* format selection, recorder construction and start, then the first pass
\* of the frame loop up to its await.  st and upd are the GenState and the
\* invocation's updates as the same task left them; image and video are
\* the media as they are now.  constructed: whether new MediaRecorder and
\* recorder.start() go through or throw (decided by the browser).
StartRecording(r, st, upd, image, video) ==
  LET mimeType == FindMimeType(supported) IN
  \E constructed \in BOOLEAN :
    IF constructed
    THEN /\ recorder' = [recorder EXCEPT ![r] =
                [state |-> "recording", mimeType |-> mimeType,
                 started |-> TRUE, onstop |-> FALSE,
                 stopQueued |-> FALSE, stopped |-> FALSE]]
         /\ f' = [f EXCEPT ![r] = 0]
         /\ canvas' = Frame(r, 0, image, video)
         /\ drawn' = [drawn EXCEPT ![r] =
                <<[t |-> 0, recorder |-> "recording",
                   scale |-> ZoomOf(0, TotalFrames(durationSec), image)]>>]
         /\ state' = st
         /\ updates' = [updates EXCEPT ![r] = upd]
         /\ pc' = [pc EXCEPT ![r] = "waitMs"]
    ELSE /\ recorder' = [recorder EXCEPT ![r] =
                [state |-> "inactive", mimeType |-> mimeType,
                 started |-> FALSE, onstop |-> FALSE,
                 stopQueued |-> FALSE, stopped |-> FALSE]]
         /\ Throw(r, upd, "NotSupportedError")
         /\ UNCHANGED <<f, canvas, drawn>>

\* <Button onClick={handleGenerate}>: a new invocation, up to its first
\* suspension.  The button is enabled in every GenState.
HandleGenerate ==
  /\ started < runLimit
  /\ LET r == started + 1
         st == Recording(Frac(0, 1))
         upd == <<st>>
     IN
     /\ started' = r
     /\ canvasRef' = (IF canvasRef # NoCanvas THEN canvasRef ELSE DomCanvas)
     /\ IF ~ctxAvailable
        THEN /\ Throw(r, upd, "Canvas 2D context not available.")
             /\ UNCHANGED <<img, vid, recorder, f, canvas, drawn>>
        ELSE IF mediaType = "image"
        THEN \E complete \in BOOLEAN :
               IF complete
               THEN \* waitImage: img.complete && img.naturalWidth
                    /\ img' = [img EXCEPT ![r] = "loaded"]
                    /\ UNCHANGED vid
                    /\ StartRecording(r, st, upd, "loaded", vid[r])
               ELSE /\ img' = [img EXCEPT ![r] = "loading"]
                    /\ state' = st
                    /\ updates' = [updates EXCEPT ![r] = upd]
                    /\ pc' = [pc EXCEPT ![r] = "waitImage"]
                    /\ UNCHANGED <<vid, recorder, f, canvas, drawn>>
        ELSE /\ vid' = [vid EXCEPT ![r] = NewVideo]
             /\ state' = st
             /\ updates' = [updates EXCEPT ![r] = upd]
             /\ pc' = [pc EXCEPT ![r] = "waitPlay"]
             /\ UNCHANGED <<img, recorder, f, canvas, drawn>>
  /\ UNCHANGED <<props, surface, chunks, emitted>>

\* waitImage: img.onload = () => res()
ImageLoad(r) ==
  /\ pc[r] = "waitImage"
  /\ img' = [img EXCEPT ![r] = "loaded"]
  /\ StartRecording(r, state, updates[r], "loaded", vid[r])
  /\ UNCHANGED <<props, surface, started, canvasRef, vid, chunks, emitted>>

\* waitImage: img.onerror = () => res(): the error does not reject
ImageError_Resolves(r) ==
  /\ pc[r] = "waitImage"
  /\ img' = [img EXCEPT ![r] = "broken"]
  /\ StartRecording(r, state, updates[r], "broken", vid[r])
  /\ UNCHANGED <<props, surface, started, canvasRef, vid, chunks, emitted>>

\* waitImage: img.onerror = () => rej(new Error("Failed to load image for
\* canvas.")), caught by handleGenerate's catch
ImageError(r) ==
  /\ pc[r] = "waitImage"
  /\ img' = [img EXCEPT ![r] = "broken"]
  /\ Throw(r, updates[r], "Failed to load image for canvas.")
  /\ UNCHANGED
       <<props, surface, started, canvasRef, canvas, f, vid, recorder, chunks,
         emitted, drawn>>

\* waitVideoReady(vid), called when play()'s promise has settled: returns
\* at once when readyState >= 2, else installs onloadeddata and
\* onloadedmetadata and suspends.
WaitVideoReady(r, video) ==
  IF ReadyNow(video)
  THEN /\ vid' = [vid EXCEPT ![r] =
              [video EXCEPT !.resolvedAt = video.readyState]]
       /\ StartRecording(r, state, updates[r], img[r],
              [video EXCEPT !.resolvedAt = video.readyState])
  ELSE /\ vid' = [vid EXCEPT ![r] = video]
       /\ pc' = [pc EXCEPT ![r] = "waitVideoReady"]
       /\ UNCHANGED <<state, updates, recorder, f, canvas, drawn>>

\* await vid.play().catch(() => {}): the promise settles, fulfilled once
\* playback has started (readyState >= 3) or rejected (autoplay refused,
\* or the source failed); a rejection is swallowed.
PlaySettled(r) ==
  /\ pc[r] = "waitPlay"
  /\ \E played \in BOOLEAN :
       (played => vid[r].readyState >= 3 /\ ~vid[r].error)
  /\ WaitVideoReady(r, vid[r])
  /\ UNCHANGED <<props, surface, started, canvasRef, img, chunks, emitted>>

\* The video element loads: readyState rises by one.  Reaching 1 fires
\* loadedmetadata, reaching 2 fires loadeddata; while the invocation waits
\* in waitVideoReady either handler resolves the wait.  During the frame
\* loop the code reads only readyState >= 2, so loading is followed up to
\* that value there.
VideoProgress(r) ==
  /\ pc[r] \in {"waitPlay", "waitVideoReady", "waitMs"}
  /\ vid[r].created /\ ~vid[r].error /\ vid[r].readyState < 4
  /\ pc[r] = "waitMs" => vid[r].readyState < ReadyThreshold
  /\ LET n == vid[r].readyState + 1
         video == [vid[r] EXCEPT !.readyState = n]
     IN IF pc[r] = "waitVideoReady" /\ n \in {1, 2}
        THEN /\ vid' = [vid EXCEPT ![r] = [video EXCEPT !.resolvedAt = n]]
             /\ StartRecording(r, state, updates[r], img[r],
                    [video EXCEPT !.resolvedAt = n])
        ELSE /\ vid' = [vid EXCEPT ![r] = video]
             /\ UNCHANGED <<state, updates, pc, recorder, f, canvas, drawn>>
  /\ UNCHANGED <<props, surface, started, canvasRef, img, chunks, emitted>>

\* The video source fails to load: the element fires error, for which no
\* handler is installed, and readyState stays 0.
VideoError(r) ==
  /\ pc[r] \in {"waitPlay", "waitVideoReady"}
  /\ vid[r].created /\ ~vid[r].error /\ vid[r].readyState = 0
  /\ vid' = [vid EXCEPT ![r] = [vid[r] EXCEPT !.error = TRUE]]
  /\ UNCHANGED
       <<props, surface, started, state, canvasRef, canvas, pc, f, img, recorder,
         chunks, emitted, updates, drawn>>

\* The recorder emits a chunk while recording: recorder.ondataavailable.
DataAvailable(r) ==
  /\ pc[r] = "waitMs"
  /\ recorder[r].state = "recording"
  /\ Len(emitted[r]) < MaxMidChunks
  /\ \E size \in ChunkSizes :
       LET data == [run |-> r, seq |-> Len(emitted[r]) + 1, size |-> size]
       IN /\ emitted' = [emitted EXCEPT ![r] = Append(emitted[r], data)]
          /\ chunks' = [chunks EXCEPT ![r] = OnDataAvailable(chunks[r], data)]
  /\ UNCHANGED
       <<props, surface, started, state, canvasRef, canvas, pc, f, img, vid,
         recorder, updates, drawn>>

\* await waitMs(1000 / fps) resumes: the progress update of the frame just
\* drawn, f++, then either the next drawFrame and wait, or the loop ends
\* and recorder.stop() is called and recorder.onstop installed.
TimerFired(r) ==
  /\ pc[r] = "waitMs"
  /\ LET total == TotalFrames(durationSec)
         n == f[r] + 1
         st == Recording(ProgressValue(f[r], total))
     IN
     /\ f' = [f EXCEPT ![r] = n]
     /\ IF ShouldUpdate(f[r], total)
        THEN /\ state' = st
             /\ updates' = [updates EXCEPT ![r] = Append(updates[r], st)]
        ELSE UNCHANGED <<state, updates>>
     /\ IF LoopContinues(n, total)
        THEN /\ canvas' = Frame(r, n, img[r], vid[r])
             /\ drawn' = [drawn EXCEPT ![r] = Append(drawn[r],
                    [t |-> n, recorder |-> recorder[r].state,
                     scale |-> ZoomOf(n, total, img[r])])]
             /\ UNCHANGED <<pc, recorder>>
        ELSE /\ recorder' = [recorder EXCEPT ![r] = StopAndAwait(recorder[r])]
             /\ pc' = [pc EXCEPT ![r] = "waitStop"]
             /\ UNCHANGED <<canvas, drawn>>
  /\ UNCHANGED <<props, surface, started, canvasRef, img, vid, chunks, emitted>>

\* The task recorder.stop() queued: the recorder fires dataavailable with
\* the data gathered since the last chunk, then stop; onstop builds the
\* Blob from chunks and handleGenerate sets the done state. A stop event
\* delivered while no onstop handler is installed is lost.
RecorderStopped(r) ==
  /\ pc[r] = "waitStop"
  /\ recorder[r].stopQueued
  /\ recorder' = [recorder EXCEPT ![r] =
                    [recorder[r] EXCEPT !.stopQueued = FALSE,
                                        !.stopped = TRUE]]
  /\ \E size \in ChunkSizes :
       LET data == [run |-> r, seq |-> Len(emitted[r]) + 1, size |-> size]
           cs == OnDataAvailable(chunks[r], data)
           blob == NewBlob(cs, BlobType(recorder[r].mimeType))
           st == DoneState(blob, blob.size)
       IN /\ emitted' = [emitted EXCEPT ![r] = Append(emitted[r], data)]
          /\ chunks' = [chunks EXCEPT ![r] = cs]
          /\ IF recorder[r].onstop
             THEN /\ state' = st
                  /\ updates' = [updates EXCEPT ![r] = Append(updates[r], st)]
                  /\ pc' = [pc EXCEPT ![r] = "returned"]
             ELSE UNCHANGED <<state, updates, pc>>
  /\ UNCHANGED <<props, surface, started, canvasRef, canvas, f, img, vid, drawn>>

Next ==
  \/ HandleGenerate
  \/ \E r \in Runs : ImageLoad(r)
  \/ \E r \in Runs : ImageError(r)
  \/ \E r \in Runs : PlaySettled(r)
  \/ \E r \in Runs : VideoProgress(r)
  \/ \E r \in Runs : VideoError(r)
  \/ \E r \in Runs : DataAvailable(r)
  \/ \E r \in Runs : TimerFired(r)
  \/ \E r \in Runs : RecorderStopped(r)

\* Next without the chunks a recorder may emit before stop()
NextSingle ==
  \/ HandleGenerate
  \/ \E r \in Runs : ImageLoad(r)
  \/ \E r \in Runs : ImageError(r)
  \/ \E r \in Runs : PlaySettled(r)
  \/ \E r \in Runs : VideoProgress(r)
  \/ \E r \in Runs : VideoError(r)
  \/ \E r \in Runs : TimerFired(r)
  \/ \E r \in Runs : RecorderStopped(r)

\* The events the browser owes a suspended invocation are delivered: a
\* timer fires, an image loads or fails, play() settles, a video that has
\* not failed keeps loading (or fails), a stopped recorder fires stop.
\* Nothing obliges the user to click or the recorder to emit early chunks.
Fairness ==
  \A r \in Runs :
    /\ WF_vars(TimerFired(r))
    /\ WF_vars(ImageLoad(r) \/ ImageError(r))
    /\ WF_vars(PlaySettled(r))
    /\ WF_vars(VideoProgress(r) \/ VideoError(r))
    /\ WF_vars(RecorderStopped(r))

Spec == Init /\ [][Next]_vars
SingleSpec == InitSingle /\ [][NextSingle]_vars
FairSpec == InitOne /\ [][Next]_vars /\ Fairness

(* ------------------------ wrapText on its own ------------------------- *)

\* the props and capabilities, fixed where they do not matter
FixedProps ==
  /\ durationSec = DefaultDurationSec * 60
  /\ supported = {mimeTypeCandidates[i] : i \in 1..3}
  /\ ctxAvailable = TRUE
  /\ runLimit = 0

Alphabet == {"a", "b", " "}
Texts == UNION {[1..n -> Alphabet] : n \in 0..MaxTextLen}

\* wrapText called as drawFrame's footer calls it (font, x, y, line
\* height), for every text, maxWidth and maxLines of the bounds
InitWrap ==
  /\ FixedProps
  /\ mediaType = "image"
  /\ title = <<>>
  /\ Mounted
  /\ DrawIdle
  /\ frameArgs = NoFrameArgs
  /\ wrapCall \in
       {WrapArgs(FooterFont, text, padding, titleY,
                 FontPx(FooterFont) * k, TitleLineHeight, m) :
          text \in Texts, k \in 0..MaxWidthUnits, m \in 1..MaxLinesArg}
  /\ wrapOut = NotCalled

WrapTextRun ==
  /\ ~wrapOut.called
  /\ wrapOut' = [ops |-> WrapText(wrapCall).ops,
                 truncated |-> WrapText(wrapCall).truncated,
                 called |-> TRUE]
  /\ UNCHANGED <<props, started, state, canvasRef, canvas, pc, f, img, vid,
                 recorder, chunks, emitted, updates, drawn, ctx, frameArgs,
                 painted, wrapCall>>

NextWrap == WrapTextRun
WrapSpec == InitWrap /\ [][NextWrap]_vars

(* ------------------------ drawFrame on its own ------------------------ *)

RECURSIVE Repeat(_, _)
Repeat(str, n) == IF n = 0 THEN <<>> ELSE str \o Repeat(str, n - 1)

\* no title, a title of one line, a title that overflows two lines
Titles ==
  {<<>>, <<"a", " ", "b">>, Repeat(<<"b", "b", "b", "b", " ">>, 8)}

FrameIndices ==
  {ix \in (0..MaxTotal) \X (1..MaxTotal) : ix[1] < ix[2]}
\* natural sizes of media: none known, square, 16:9, the band's own
\* aspect, wider than the band
MediaSizes ==
  {<<0, 0>>, <<1000, 1000>>, <<1920, 1080>>, <<1280, 500>>, <<2000, 500>>}
ImageArgs == {ImageOf(sz[1], sz[2]) : sz \in MediaSizes}
\* a video element reports no size before it has metadata
VideoArgs ==
  {VideoOf(rs, sz[1], sz[2]) :
     rs \in 0..4, sz \in MediaSizes} \ {VideoOf(0, sz[1], sz[2]) :
     sz \in MediaSizes \ {<<0, 0>>}}
\* handleGenerate hands drawFrame the image in image mode and the video
\* in video mode
DrawArgs ==
  IF mediaType = "image"
  THEN {FrameArgs(ix[1], ix[2], i, NoVideoArg) :
          ix \in FrameIndices, i \in ImageArgs}
  ELSE {FrameArgs(ix[1], ix[2], NoImageArg, v) :
          ix \in FrameIndices, v \in VideoArgs}

InitDraw ==
  /\ FixedProps
  /\ mediaType \in {"image", "video"}
  /\ title \in Titles
  /\ Mounted
  /\ DrawIdle
  /\ frameArgs \in DrawArgs
  /\ wrapCall = NoWrapCall
  /\ wrapOut = NotCalled

\* one call of drawFrame on the canvas's context, with frameArgs or with
\* any other arguments, whatever was drawn on the canvas before
DrawFrameCall ==
  /\ \E a \in DrawArgs :
       LET res == DrawFrame(ctx, a.t, a.total, a.image, a.video)
           entry == [args |-> a, before |-> ctx, ops |-> res.ops]
       IN /\ ctx' = res.ctx
          /\ painted' = IF a # frameArgs THEN painted
                        ELSE IF painted = <<>> THEN <<entry>>
                        ELSE <<painted[1], entry>>
  /\ UNCHANGED <<props, started, state, canvasRef, canvas, pc, f, img, vid,
                 recorder, chunks, emitted, updates, drawn, frameArgs,
                 wrapCall, wrapOut>>

NextDraw == DrawFrameCall
DrawSpec == InitDraw /\ [][NextDraw]_vars

(* ------------------------------ claims -------------------------------- *)

IsRecording(s) == s.status = "recording"
IsDone(s) == s.status = "done"
IsError(s) == s.status = "error"
NonEmpty(data) == data.size > 0

Invoked(r) == started >= r
InFlight(r) == pc[r] \notin {"idle", "returned"}
Terminals(r) == SelectSeq(updates[r], IsTerminal)
HasDone(r) == \E i \in 1..Len(updates[r]) : IsDone(updates[r][i])
HasError(r) == \E i \in 1..Len(updates[r]) : IsError(updates[r][i])
LastUpdate(r) == updates[r][Len(updates[r])]
\* the progress values invocation r has set, in order
ProgressSeq(r) ==
  LET rec == SelectSeq(updates[r], IsRecording)
  IN [i \in 1..Len(rec) |-> rec[i].progress]
\* the artifact of r's done state
Artifact(r) == LastUpdate(r).url

\* C1: once GenState is done or error, it changes only in a step that
\* starts a new invocation of handleGenerate; no step of an invocation
\* already running (a progress update, its done, its error) replaces it.
\* (The original claim; the code violates it.)
C1_TerminalStateSticky ==
  [][(IsTerminal(state) /\ state' # state) => started' = started + 1]_vars

\* C2: every invocation makes exactly one terminal transition: it never
\* sets done or error twice or both, sets nothing after it, and, the
\* browser delivering its events fairly, eventually sets one, in image
\* mode and in video mode.  (The original claim; the code violates it.)
C2_ExactlyOneTerminal ==
  /\ [](\A r \in Runs :
          /\ Len(Terminals(r)) <= 1
          /\ Len(Terminals(r)) = 1 => IsTerminal(LastUpdate(r)))
  /\ \A r \in Runs : [](Invoked(r) => <>(Len(Terminals(r)) = 1))

\* C3: at most one invocation is in flight at any moment, and no two
\* invocations are both in the frame loop drawing on the canvas of
\* canvasRef.  (The original claim; the code violates it.)
C3_SingleRunInFlight ==
  \A r1, r2 \in Runs :
    r1 # r2 =>
      /\ ~(InFlight(r1) /\ InFlight(r2))
      /\ ~(pc[r1] = "waitMs" /\ pc[r2] = "waitMs")

C5_ArtifactIsOwnChunks ==
  \A r \in Runs :
    /\ chunks[r] = SelectSeq(emitted[r], NonEmpty)
    /\ HasDone(r) =>
         /\ Artifact(r).parts = SelectSeq(emitted[r], NonEmpty)
         /\ \A i \in 1..Len(Artifact(r).parts) : Artifact(r).parts[i].run = r
         /\ LastUpdate(r).size = SumSizes(emitted[r])

\* a done artifact from which an empty early chunk was dropped and in
\* which the flushed chunk is kept, while the other invocation's recorder
\* has emitted a chunk of its own
C5_Witness ==
  \E r1, r2 \in Runs :
    /\ r1 # r2
    /\ HasDone(r1)
    /\ Len(emitted[r1]) = 2
    /\ emitted[r1][1].size = 0
    /\ emitted[r1][2].size > 0
    /\ Len(Artifact(r1).parts) = 1
    /\ chunks[r2] # <<>>

\* C6: the progress values an invocation sets start with 0, are
\* non-decreasing, and lie in [0, 1].
C6_ProgressMonotone ==
  \A r \in Runs :
    LET ps == ProgressSeq(r) IN
    /\ ps # <<>> => ps[1].num = 0
    /\ \A i \in 1..Len(ps) :
         FracLeq(Frac(0, 1), ps[i]) /\ FracLeq(ps[i], Frac(1, 1))
    /\ \A i \in 1..(Len(ps) - 1) : FracLeq(ps[i], ps[i + 1])

\* a finished clip whose progress was updated every other frame
C6_Witness ==
  \E r \in Runs :
    /\ HasDone(r)
    /\ ProgressStep(TotalFrames(durationSec)) = 2
    /\ Len(ProgressSeq(r)) > ProgressUpdates

\* C7: the last progress value p an invocation sets before done satisfies
\* 1 - p < step / totalFrames with step = max(1, floor(totalFrames / 50)),
\* and p = 1 exactly when step divides totalFrames.
C7_LastProgress ==
  \A r \in Runs :
    HasDone(r) =>
      LET total == TotalFrames(durationSec)
          step == ProgressStep(total)
          ps == ProgressSeq(r)
          p == ps[Len(ps)]
      IN /\ FracLess(Frac(p.den - p.num, p.den), Frac(step, total))
         /\ (p.num = p.den) <=> (total % step = 0)

\* a finished clip whose last progress value is below 1
C7_Witness ==
  \E r \in Runs :
    /\ HasDone(r)
    /\ LET ps == ProgressSeq(r) IN ps[Len(ps)].num < ps[Len(ps)].den

\* C8: when the image fires error, the invocation sets the error state
\* with the failure's message and returns: no recorder, no frame drawn, no
\* chunk, no done state.
C8_ImageFailureAborts ==
  \A r \in Runs :
    img[r] = "broken" =>
      /\ pc[r] = "returned"
      /\ updates[r] =
           <<Recording(Frac(0, 1)),
             ErrorState("Failed to load image for canvas.")>>
      /\ recorder[r] = NoRecorder
      /\ drawn[r] = <<>>
      /\ chunks[r] = <<>>
      /\ emitted[r] = <<>>

\* an invocation whose image failed to load
C8_Witness == \E r \in Runs : img[r] = "broken" /\ HasError(r)

C11_ZoomEndpoints ==
  \A r \in Runs :
    LET total == TotalFrames(durationSec)
        d == drawn[r]
    IN mediaType = "image" =>
         /\ d # <<>> => d[1].scale.num = d[1].scale.den
         /\ Len(d) = total =>
              d[total].scale.num * 10 = d[total].scale.den * 11
         /\ \A i \in 1..(Len(d) - 1) : FracLeq(d[i].scale, d[i + 1].scale)

\* C11 as amended: the same for every totalFrames >= 2; a clip of one
\* frame is drawn at scale 1.0.
C11_ZoomEndpointsFromTwo ==
  \A r \in Runs :
    LET total == TotalFrames(durationSec)
        d == drawn[r]
    IN mediaType = "image" =>
         /\ d # <<>> => d[1].scale.num = d[1].scale.den
         /\ (Len(d) = total /\ total >= 2) =>
              d[total].scale.num * 10 = d[total].scale.den * 11
         /\ \A i \in 1..(Len(d) - 1) : FracLeq(d[i].scale, d[i + 1].scale)

\* the last frame of the default clip, drawn at scale 1.1 after frames at
\* a scale strictly between 1.0 and 1.1
C11_Witness ==
  \E r \in Runs :
    /\ mediaType = "image"
    /\ Len(drawn[r]) = DefaultDurationSec * fps
    /\ drawn[r][Len(drawn[r])].scale.num * 10 =
         drawn[r][Len(drawn[r])].scale.den * 11
    /\ FracLess(Frac(1, 1), drawn[r][2].scale)
    /\ FracLess(drawn[r][2].scale, Frac(11, 10))

\* C19: a run sets Done only after its recorder's stop event has been
\* delivered; whenever a stop event is pending the onstop handler is
\* already installed; and a run that reached recorder.stop() goes on to
\* Done, it does not wait forever for the flush.
C19_StopEventNotMissed ==
  \A r \in Runs :
    /\ [](HasDone(r) => recorder[r].stopped)
    /\ [](recorder[r].stopQueued => recorder[r].onstop)
    /\ [](pc[r] = "waitStop" => recorder[r].stopQueued)
    /\ (pc[r] = "waitStop" ~> HasDone(r))

\* a run that reached Done through the delivered stop event
C19_Witness ==
  \E r \in Runs :
    /\ HasDone(r)
    /\ recorder[r].stopped
    /\ recorder[r].onstop
    /\ pc[r] = "returned"

\* m is the first entry of the preference-ordered list reported supported
IsFirstSupported(m) ==
  \E i \in 1..Len(mimeTypeCandidates) :
    /\ mimeTypeCandidates[i] = m
    /\ m \in supported
    /\ \A j \in 1..(i - 1) : mimeTypeCandidates[j] \notin supported

WrapWords == Split(wrapCall.text)
WrapLines == wrapOut.ops
LineIndex(op) == (op.y - wrapCall.y) \div wrapCall.lineHeight
LineWidth(str) == MeasureText(wrapCall.font, str)
HasEllipsis(str) == \E i \in DOMAIN str : str[i] = Ellipsis
EndsWithEllipsis(str) == str # <<>> /\ str[Len(str)] = Ellipsis
StripEllipsis(str) == SelectSeq(str, LAMBDA c : c # Ellipsis)
NonEmptyWords(str) == SelectSeq(Split(str), LAMBDA w : w # <<>>)
RECURSIVE DrawnWordsFrom(_)
DrawnWordsFrom(ops) ==
  IF ops = <<>> THEN <<>>
  ELSE NonEmptyWords(Head(ops).text) \o DrawnWordsFrom(Tail(ops))

\* the greedy word wrap: a word joins the line while the candidate line
\* is no wider than maxWidth; a word that overflows a non-empty line
\* starts the next line
RECURSIVE GreedyLines(_, _, _, _)
GreedyLines(words, n, line, lines) ==
  IF n > Len(words) THEN Append(lines, line)
  ELSE LET candidate == IF line # <<>> THEN line \o <<" ">> \o words[n]
                        ELSE words[n]
       IN IF LineWidth(candidate) > wrapCall.maxWidth /\ line # <<>>
          THEN GreedyLines(words, n + 1, words[n], Append(lines, line))
          ELSE GreedyLines(words, n + 1, candidate, lines)

\* C12: for every text, maxWidth and maxLines >= 1, wrapText makes at most
\* maxLines fillText calls, on the lines 0..maxLines-1.
\* (The code violates it.)
C12_AtMostMaxLines ==
  wrapOut.called =>
    /\ Len(WrapLines) <= wrapCall.maxLines
    /\ \A i \in DOMAIN WrapLines :
         LineIndex(WrapLines[i]) \in 0..(wrapCall.maxLines - 1)

\* C13 as claimed: for every text and every maxWidth, when wrapText
\* truncates, the last line drawn ends with the ellipsis, is no wider
\* than maxWidth with the ellipsis, and is the only line with an ellipsis
\* (nothing is drawn after it).  (The original claim; the code violates
\* it.)
C13_TruncatedLineFits ==
  (wrapOut.called /\ wrapOut.truncated) =>
    LET last == WrapLines[Len(WrapLines)]
    IN /\ EndsWithEllipsis(last.text)
       /\ LineWidth(last.text) <= wrapCall.maxWidth
       /\ \A i \in 1..(Len(WrapLines) - 1) :
            /\ ~HasEllipsis(WrapLines[i].text)
            /\ LineIndex(WrapLines[i]) < LineIndex(last)

\* C13 as amended: the same for every maxWidth at least as wide as the
\* ellipsis itself.
C13_TruncatedLineFitsEllipsis ==
  (wrapOut.called /\ wrapOut.truncated
   /\ wrapCall.maxWidth >= LineWidth(<<Ellipsis>>)) =>
    LET last == WrapLines[Len(WrapLines)]
    IN /\ EndsWithEllipsis(last.text)
       /\ LineWidth(last.text) <= wrapCall.maxWidth
       /\ \A i \in 1..(Len(WrapLines) - 1) :
            /\ ~HasEllipsis(WrapLines[i].text)
            /\ LineIndex(WrapLines[i]) < LineIndex(last)

\* a truncated last line that kept some characters and lost others
C13_Witness ==
  /\ wrapOut.called
  /\ wrapOut.truncated
  /\ Len(WrapLines[Len(WrapLines)].text) >= 2
  /\ Len(DrawnWordsFrom(WrapLines)) < Len(NonEmptyWords(wrapCall.text))
  /\ LineWidth(WrapLines[Len(WrapLines)].text) = wrapCall.maxWidth

\* C14: a text whose greedy word wrap fits within maxLines lines of width
\* maxWidth is drawn completely: every word present, no ellipsis.
\* (The code violates it.)
C14_FittingTextDrawnWhole ==
  (wrapOut.called
   /\ Len(GreedyLines(WrapWords, 1, <<>>, <<>>)) <= wrapCall.maxLines) =>
    /\ \A i \in DOMAIN WrapLines : ~HasEllipsis(WrapLines[i].text)
    /\ DrawnWordsFrom(WrapLines) = NonEmptyWords(wrapCall.text)

\* C16 as claimed: a word wider than maxWidth is drawn whole, wherever it
\* occurs in the text.  (The original claim; the code violates it.)
C16_NeverBreaksWord ==
  wrapOut.called =>
    \A k \in DOMAIN WrapWords :
      LineWidth(WrapWords[k]) > wrapCall.maxWidth =>
        \E i \in DOMAIN WrapLines :
          \E j \in DOMAIN Split(StripEllipsis(WrapLines[i].text)) :
            Split(StripEllipsis(WrapLines[i].text))[j] = WrapWords[k]

\* C16 as amended: a word wider than maxWidth that is the only or the
\* first word of the text is drawn whole, alone on the first line; and
\* every line drawn without the ellipsis is made of whole words of the
\* text.
C16_FirstWordWhole ==
  wrapOut.called =>
    /\ LineWidth(WrapWords[1]) > wrapCall.maxWidth =>
         /\ WrapLines[1].text = WrapWords[1]
         /\ LineIndex(WrapLines[1]) = 0
    /\ \A i \in DOMAIN WrapLines :
         ~HasEllipsis(WrapLines[i].text) =>
           \E lo \in DOMAIN WrapWords : \E hi \in DOMAIN WrapWords :
             WrapLines[i].text = Join(SubSeq(WrapWords, lo, hi))

\* a first word wider than maxWidth, followed by more text, drawn whole
C16_Witness ==
  /\ wrapOut.called
  /\ wrapCall.maxWidth > 0
  /\ Len(WrapWords) >= 2
  /\ LineWidth(WrapWords[1]) > wrapCall.maxWidth
  /\ WrapLines[1].text = WrapWords[1]

\* drawFrame on its own: the drawImage calls among the calls of an entry
\* of painted, and the media handed to that call
DrawImages(entry) ==
  SelectSeq(entry.ops, LAMBDA o : o.call.op = "drawImage")
SameQuotient(p, q) == p.num * q.den = q.num * p.den

C17_VideoOnlyWhenReady ==
  \A i \in DOMAIN painted :
    LET v == painted[i].args.video
        ops == painted[i].ops
        ready == /\ v.readyState >= 2
                 /\ v.videoWidth # 0
                 /\ v.videoHeight # 0
    IN mediaType = "video" =>
         /\ Len(DrawImages(painted[i])) = (IF ready THEN 1 ELSE 0)
         /\ \E k \in DOMAIN ops :
              /\ ops[k].call = FillRect(0, headerH, width,
                                        height - headerH - footerH)
              /\ ops[k].attrs = <<"#000000">>
              /\ \A n \in (k + 1)..Len(ops) :
                   \/ ops[n].call.op = "drawImage"
                   \/ /\ ops[n].call.op = "fillText"
                      /\ ops[n].call.y >= height - footerH
              /\ \E n \in 1..(k - 1) :
                   /\ ops[n].call = FillRect(0, 0, width, headerH)
                   /\ ops[n].attrs = <<"#e11d48">>
              /\ \E n \in 1..(k - 1) :
                   /\ ops[n].call.op = "fillText"
                   /\ ops[n].call.text = Label
              /\ \E n \in (k + 1)..Len(ops) :
                   /\ ops[n].call.op = "fillText"
                   /\ ops[n].call.y = height - footerH + 24

\* a frame drawn while the video has metadata and a size but no current
\* frame yet: no drawImage
C17_Witness ==
  /\ mediaType = "video"
  /\ painted # <<>>
  /\ frameArgs.video.readyState = 1
  /\ frameArgs.video.videoWidth # 0
  /\ DrawImages(painted[1]) = <<>>
  /\ Len(painted[1].ops) >= 5

\* C18: the rectangle drawFrame draws the media into keeps the source's
\* aspect ratio, is centred on the media band, and lies vertically within
\* [headerH, height - footerH], for every media size and every frame.
\* (The code violates it.)
C18_MediaInsideBand ==
  \A i \in DOMAIN painted :
    \A k \in DOMAIN painted[i].ops :
      LET c == painted[i].ops[k].call
          a == painted[i].args
          natural == IF mediaType = "image"
                     THEN Frac(a.image.naturalWidth, a.image.naturalHeight)
                     ELSE Frac(a.video.videoWidth, a.video.videoHeight)
      IN c.op = "drawImage" =>
           /\ SameQuotient(Frac(c.w.num * c.h.den, c.w.den * c.h.num),
                           natural)
           /\ SameQuotient(Plus(c.x, Half(c.w)), Frac(width, 2))
           /\ SameQuotient(Plus(c.y, Half(c.h)),
                           Frac(2 * headerH + (height - headerH - footerH),
                                2))
           /\ FracLeq(Frac(headerH, 1), c.y)
           /\ FracLeq(Plus(c.y, c.h), Frac(height - footerH, 1))

\* C10: in video mode waitVideoReady resolves, and so the frame loop
\* starts, only with readyState >= 2.  (The original claim; the code
\* violates it.)
C10_LoopOnlyWhenReady ==
  \A r \in Runs :
    (vid[r].created /\ vid[r].resolvedAt # -1) =>
      vid[r].resolvedAt >= ReadyThreshold

====
